---- MODULE Spec2Model ----
(***************************************************************************)
(* bca_assay_analysis.py: a single-pass script that normalises a 96-well   *)
(* plate readout, fits a linear standard curve and back-computes sample    *)
(* concentrations.                                                         *)
(*                                                                         *)
(* Numbers.  Absorbance readings are integers in units of 1e-4 (the        *)
(* precision the script rounds to before fitting); concentrations are      *)
(* integers in the user's unit.  Every derived float (mean, slope,         *)
(* intercept, concentration) is an exact rational <<num, den>> in lowest   *)
(* terms with den > 0, so floating-point rounding error is not modelled.   *)
(*                                                                         *)
(* Strings.  A token typed by the user is a sequence of one-character      *)
(* strings, so that str.strip, str.isdigit, str.isalpha, str.upper, int()  *)
(* and sample[0] are modelled by what they do to the characters.           *)
(***************************************************************************)
EXTENDS Integers, Sequences, FiniteSets, TLC

VARIABLES
    pc,                        \* position of the script
    df,                        \* the raw table read from the spreadsheet
    data,                      \* the normalised plate (module-level `data`)
    standard_conc,             \* list of standard concentrations, or None
    standard_values_location,  \* converted location list, or None
    new_data,                  \* mean absorbance per standard, or None
    orientation,               \* which "Detected ... orientation" line was printed
    slope,                     \* model.coef_[0]
    intercept,                 \* model.intercept_
    plotted,                   \* "none" | "plot" | "nodata": branch of line 156
    sample_location,           \* the split sample input (batch mode)
    idx,                       \* loop position (batch: token index; manual: count)
    count_samples,             \* manual mode: number of samples asked for
    reports,                   \* concentration lines printed, in order
    warnings,                  \* tokens answered by 'No valid sample data accessible.'
    error,                     \* [line, kind] of the uncaught exception
    typed                      \* what the user typed at lines 67 and 74, as split

vars == <<pc, df, data, standard_conc, standard_values_location, new_data,
          orientation, slope, intercept, plotted, sample_location, idx,
          count_samples, reports, warnings, error>>

\* A Python name that holds None or is not bound yet, and one that holds a value;
\* tested through .none only
None == [none |-> TRUE]
Some(x) == [none |-> FALSE, v |-> x]

-----------------------------------------------------------------------------
(* Program constants *)

\* df.tail(8)
NRows == 8
\* range(1,13): the normaliser names the data columns 1..12
NCols == 12
\* columns[1:14]: Python slice bounds (0-based, end exclusive)
SliceFrom == 1
SliceTo == 14
\* .iloc[:3]: the readings averaged for a sample
NReplicates == 3

-----------------------------------------------------------------------------
(* Exact rationals *)

Abs(n) == IF n < 0 THEN -n ELSE n

RECURSIVE Gcd(_, _)
Gcd(a, b) == IF b = 0 THEN a ELSE Gcd(b, a % b)

Rat(n, d) ==
    LET g == Gcd(Abs(n), Abs(d))
        s == IF d < 0 THEN -1 ELSE 1
    IN  <<(s * n) \div g, (s * d) \div g>>

RInt(n) == <<n, 1>>
RAdd(a, b) == Rat(a[1] * b[2] + b[1] * a[2], a[2] * b[2])
RSub(a, b) == Rat(a[1] * b[2] - b[1] * a[2], a[2] * b[2])
RMul(a, b) == Rat(a[1] * b[1], a[2] * b[2])
RDiv(a, b) == Rat(a[1] * b[2], a[2] * b[1])

RECURSIVE SumSeq(_)
SumSeq(s) == IF s = <<>> THEN 0 ELSE Head(s) + SumSeq(Tail(s))

\* Series.mean() / DataFrame.mean(axis=1) of a non-empty run of readings
Mean(s) == Rat(SumSeq(s), Len(s))

\* numpy round to 0 decimals of the 1e-4 unit: nearest integer, ties to even
RoundHalfEven(q) ==
    LET fl  == q[1] \div q[2]
        rem == 2 * (q[1] % q[2])
    IN  IF rem < q[2] THEN fl
        ELSE IF rem > q[2] THEN fl + 1
        ELSE IF fl % 2 = 0 THEN fl ELSE fl + 1

-----------------------------------------------------------------------------
(* Characters and strings *)

DigitChars == <<"0", "1", "2", "3", "4", "5", "6", "7", "8", "9">>
UpperChars == <<"A", "B", "C", "D", "E", "F", "G", "H", "I", "J", "K", "L", "Z">>
LowerChars == <<"a", "b", "c", "d", "e", "f", "g", "h", "i", "j", "k", "l", "z">>

InSeq(c, s) == \E i \in 1..Len(s) : s[i] = c
IndexOf(c, s) == CHOOSE i \in 1..Len(s) : s[i] = c

IsDigitChar(c) == InSeq(c, DigitChars)
IsAlphaChar(c) == InSeq(c, UpperChars) \/ InSeq(c, LowerChars)
IsSpaceChar(c) == c = " "

\* a test of the first character only, in place of str.isdigit
StartsWithDigit(s) == Len(s) > 0 /\ IsDigitChar(s[1])

\* str.isdigit / str.isalpha: non-empty and every character in the class
IsDigit(s) == Len(s) > 0 /\ \A i \in 1..Len(s) : IsDigitChar(s[i])
IsAlpha(s) == Len(s) > 0 /\ \A i \in 1..Len(s) : IsAlphaChar(s[i])

UpperChar(c) == IF InSeq(c, LowerChars) THEN UpperChars[IndexOf(c, LowerChars)] ELSE c
\* str.upper
Upper(s) == [i \in 1..Len(s) |-> UpperChar(s[i])]

RECURSIVE LStrip(_)
LStrip(s) == IF s # <<>> /\ IsSpaceChar(Head(s)) THEN LStrip(Tail(s)) ELSE s
RECURSIVE RStrip(_)
RStrip(s) ==
    IF s # <<>> /\ IsSpaceChar(s[Len(s)]) THEN RStrip(SubSeq(s, 1, Len(s) - 1)) ELSE s
\* str.strip
Strip(s) == RStrip(LStrip(s))

RECURSIVE DigitsValue(_)
DigitsValue(s) ==
    IF s = <<>> THEN 0
    ELSE 10 * DigitsValue(SubSeq(s, 1, Len(s) - 1)) + (IndexOf(s[Len(s)], DigitChars) - 1)

\* int(str): surrounding whitespace is ignored, then decimal digits are required
\* (over the characters of the model: no sign, no underscore)
IntOk(s) ==
    LET t == Strip(s) IN Len(t) > 0 /\ \A i \in 1..Len(t) : IsDigitChar(t[i])
IntValue(s) == DigitsValue(Strip(s))

-----------------------------------------------------------------------------
(* Tables.  A cell is a record, so that a label and a number are comparable. *)

Str(s) == [isnum |-> FALSE, s |-> s, n |-> 0]
Num(n) == [isnum |-> TRUE, s |-> <<>>, n |-> n]

\* the plate's row labels A..H
RowLabel(r) == <<UpperChars[r]>>

\* DataFrame.tail(n): the last n rows (all of them when there are fewer)
TailRows(t, n) == IF Len(t) <= n THEN t ELSE SubSeq(t, Len(t) - n + 1, Len(t))

\* Python list slice l[from:to] (0-based, end exclusive, clipped to the list)
Slice(l, from, to) ==
    LET hi == IF to < Len(l) THEN to ELSE Len(l)
    IN  IF from >= hi THEN <<>> ELSE SubSeq(l, from + 1, hi)

\* DataFrame.transpose(): row labels and column labels change places
Transpose(d) ==
    [index |-> d.columns,
     columns |-> d.index,
     cells |-> [c \in 1..Len(d.columns) |-> [r \in 1..Len(d.index) |-> d.cells[r][c]]]]

\* positions of the columns labelled `lab` (pandas label lookup)
ColPos(d, lab) == {c \in 1..Len(d.columns) : d.columns[c] = lab}
HasCol(d, lab) == ColPos(d, lab) # {}
Col(d, lab) == CHOOSE c \in ColPos(d, lab) : TRUE

-----------------------------------------------------------------------------
(* Table Normalizer (lines 22-38) as a function of the raw table *)

\* columns[0:13] in place of columns[1:14]
ColumnsFromFirst(raw) ==
    Slice([j \in 1..Len(raw[1]) |-> j], SliceFrom - 1, SliceTo - 1)

\* columns[1:14], as positions (1-based) into the raw table's columns
ColumnsToSelect(raw) ==
    Slice([j \in 1..Len(raw[1]) |-> j], SliceFrom, SliceTo)

\* table[columns_to_select].set_index(columns_to_select[0]); data.columns = 1..12
\* The result is the frame, or the exception the statement raises.
NormalizeResult(raw) ==
    LET table == TailRows(raw, NRows)
        sel   == ColumnsToSelect(raw)
    IN  IF sel = <<>> THEN [ok |-> FALSE, line |-> 34, kind |-> "IndexError"]
        ELSE LET rest == Tail(sel)
             IN  IF Len(rest) # NCols
                 THEN [ok |-> FALSE, line |-> 37, kind |-> "ValueError"]
                 ELSE [ok |-> TRUE,
                       frame |->
                         [index   |-> [r \in 1..Len(table) |-> table[r][sel[1]]],
                          columns |-> [k \in 1..NCols |-> Num(k)],
                          cells   |-> [r \in 1..Len(table) |->
                                         [k \in 1..NCols |-> table[r][rest[k]]]]]]

-----------------------------------------------------------------------------
(* Standard Curve Fitter: StandardCurve(data) (lines 44-127) *)

\* data[labels]: the sub-frame of the listed columns, in the listed order
SelectCols(d, labels) ==
    [index   |-> d.index,
     columns |-> labels,
     cells   |-> [r \in 1..Len(d.index) |->
                    [k \in 1..Len(labels) |-> d.cells[r][Col(d, labels[k])]]]]

\* DataFrame.mean(axis=0) in place of axis=1: one mean per column
ColumnMeans(d) ==
    [k \in 1..Len(d.columns) |-> Mean([r \in 1..Len(d.index) |-> d.cells[r][k].n])]

\* DataFrame.mean(axis=1): one mean per row, across the frame's columns
RowMeans(d) ==
    [r \in 1..Len(d.index) |-> Mean([k \in 1..Len(d.columns) |-> d.cells[r][k].n])]

\* line 92: data[standard_values_location].mean(axis=1)[0:len(standard_conc)]
VerticalMeans(d, cols, n) ==
    Slice(RowMeans(SelectCols(d, [i \in 1..Len(cols) |-> Num(cols[i])])), 0, n)

\* the slice [1:n+1] in place of [0:n] on the transposed frame
HorizontalMeansFromSecond(d, toks, n) ==
    Slice(RowMeans(SelectCols(Transpose(d), [i \in 1..Len(toks) |-> Str(Upper(toks[i]))])),
          1, n + 1)

\* lines 99-107: the same on the transposed frame, labels uppercased
HorizontalMeans(d, toks, n) ==
    Slice(RowMeans(SelectCols(Transpose(d), [i \in 1..Len(toks) |-> Str(Upper(toks[i]))])),
          0, n)

\* what `except Exception` returns (line 127), after the detection line was printed
Caught(orient) ==
    [standard_conc |-> None, standard_values_location |-> None,
     new_data |-> None, orientation |-> orient, caught |-> TRUE]

\* StandardCurve(data) for the typed concentrations and the typed location tokens
StandardCurveResult(d, concs, tokens) ==
    LET locs == [i \in 1..Len(tokens) |-> Strip(tokens[i])]
        n    == Len(concs)
    IN  IF IsDigit(locs[1])
        THEN IF \E i \in 1..Len(locs) : ~IntOk(locs[i])
             THEN Caught("vertical")
             ELSE LET cols == [i \in 1..Len(locs) |-> IntValue(locs[i])]
                  IN  IF \E i \in 1..Len(cols) : ~HasCol(d, Num(cols[i]))
                      THEN Caught("vertical")
                      ELSE [standard_conc |-> Some(concs),
                            standard_values_location |->
                                Some([i \in 1..Len(cols) |-> Num(cols[i])]),
                            new_data |-> Some(VerticalMeans(d, cols, n)),
                            orientation |-> "vertical", caught |-> FALSE]
        ELSE IF IsAlpha(locs[1])
        THEN IF \E i \in 1..Len(locs) : ~HasCol(Transpose(d), Str(Upper(locs[i])))
             THEN Caught("horizontal")
             ELSE [standard_conc |-> Some(concs),
                   standard_values_location |->
                       Some([i \in 1..Len(locs) |-> Str(Upper(locs[i]))]),
                   new_data |-> Some(HorizontalMeans(d, locs, n)),
                   orientation |-> "horizontal", caught |-> FALSE]
        ELSE [standard_conc |-> Some(concs),
              standard_values_location |-> Some([i \in 1..Len(locs) |-> Str(locs[i])]),
              new_data |-> None, orientation |-> "none", caught |-> FALSE]

-----------------------------------------------------------------------------
(* Regression (lines 133-146) *)

\* np.array(new_data.round(4)): each mean rounded to the 1e-4 unit
RoundedY(means) == [i \in 1..Len(means) |-> RoundHalfEven(means[i])]

\* LinearRegression().fit(X, y): least squares; when every x is the same the
\* centred design is zero and the minimum-norm solution has slope 0
LinReg(x, y) ==
    LET n   == Len(x)
        sx  == SumSeq(x)
        sy  == SumSeq(y)
        sxx == SumSeq([i \in 1..n |-> x[i] * x[i]])
        sxy == SumSeq([i \in 1..n |-> x[i] * y[i]])
        den == n * sxx - sx * sx
        a   == IF den = 0 THEN RInt(0) ELSE Rat(n * sxy - sx * sy, den)
    IN  [slope |-> a, intercept |-> RDiv(RSub(RInt(sy), RMul(a, RInt(sx))), RInt(n))]

-----------------------------------------------------------------------------
(* Concentration Estimator (lines 201-241) *)

\* CalcConc with the result clamped at zero
CalcConcClamped(absorbance, sl, ic) ==
    LET num == RSub(absorbance, ic)
        q   == IF sl[1] = 0 THEN RInt(0) ELSE RDiv(num, sl)
    IN  IF sl[1] = 0
        THEN [kind |-> IF num[1] = 0 THEN "nan" ELSE "inf", v |-> RInt(0)]
        ELSE [kind |-> "num", v |-> IF q[1] < 0 THEN RInt(0) ELSE q]

\* CalcConc(absorbance) with the globals slope and intercept.  Both are numpy
\* float64, so a zero slope raises nothing: the quotient is inf, -inf or nan.
CalcConc(absorbance, sl, ic) ==
    LET num == RSub(absorbance, ic)
    IN  IF sl[1] = 0
        THEN [kind |-> IF num[1] = 0 THEN "nan" ELSE "inf", v |-> RInt(0)]
        ELSE [kind |-> "num", v |-> RDiv(num, sl)]

\* line 219: `sample.strip()` builds the stripped string and drops it; the
\* name `sample` keeps the token as it was split
AfterStripStatement(sample) == sample

\* Series.iloc[:3].mean() of column `lab` of frame d
FirstReadingsMean(d, lab) ==
    Mean(Slice([r \in 1..Len(d.index) |-> d.cells[r][Col(d, lab)].n], 0, NReplicates))

\* One pass of the loop body (lines 219-241) for one split token:
\*   skip   - the empty token, nothing printed
\*   warn   - 'No valid sample data accessible.'
\*   raise  - an exception no handler catches
\*   report - a concentration line
SampleStep(d, token, sl, ic) ==
    LET sample == AfterStripStatement(token)
    IN  IF sample = <<>> THEN [out |-> "skip"]
        ELSE IF IsDigitChar(sample[1])
        THEN IF ~IntOk(sample)
             THEN [out |-> "raise", line |-> 226, kind |-> "ValueError"]
             ELSE IF ~HasCol(d, Num(IntValue(sample)))
             THEN [out |-> "raise", line |-> 226, kind |-> "KeyError"]
             ELSE LET a == FirstReadingsMean(d, Num(IntValue(sample)))
                  IN  [out |-> "report", orientation |-> "vertical",
                       label |-> Str(sample), abs |-> a, conc |-> CalcConc(a, sl, ic)]
        ELSE IF IsAlphaChar(sample[1])
        THEN IF ~HasCol(Transpose(d), Str(Upper(sample)))
             THEN [out |-> "raise", line |-> 232, kind |-> "KeyError"]
             ELSE LET a == FirstReadingsMean(Transpose(d), Str(Upper(sample)))
                  IN  [out |-> "report", orientation |-> "horizontal",
                       label |-> Str(Upper(sample)), abs |-> a,
                       conc |-> CalcConc(a, sl, ic)]
        ELSE [out |-> "warn"]

-----------------------------------------------------------------------------
(* Inputs *)

\* bounds of the explored inputs
MaxHeadRows == 1
MaxStandards == 13
MaxLocations == 2
MaxSamples == 2
MaxCount == 2
ProbeRange == 3

SeqsUpTo(S, n) == UNION {[1..k -> S] : k \in 1..n}

\* Three 8 x 12 plates of readings: a linear dilution series down the rows with
\* a small column offset, a flat plate, and an irregular one
PlateLinear == [r \in 1..NRows |-> [c \in 1..NCols |-> 500 + 1000 * (r - 1) + c]]
PlateFlat == [r \in 1..NRows |-> [c \in 1..NCols |-> 5000]]
PlateUneven ==
    [r \in 1..NRows |-> [c \in 1..NCols |-> ((7 * r * r + 13 * c + 3 * r * c) % 97) * 10 + r]]
Plates == {PlateLinear, PlateFlat, PlateUneven}

\* A spreadsheet holding plate P in its last 8 rows: `head` rows of other
\* content above it, optionally a leading column before the row labels and a
\* trailing column after the 12 readings
RawTable(lead, trail, head, P) ==
    LET pre(c)  == IF lead THEN <<c>> ELSE <<>>
        post(c) == IF trail THEN <<c>> ELSE <<>>
        other   == pre(Num(0)) \o <<Str(<<"#">>)>> \o [c \in 1..NCols |-> Num(9999)]
                     \o post(Num(0))
        row(r)  == pre(Num(r)) \o <<Str(RowLabel(r))>> \o [c \in 1..NCols |-> Num(P[r][c])]
                     \o post(Num(0))
    IN  [i \in 1..head |-> other] \o [r \in 1..NRows |-> row(r)]

AllRawTables ==
    {RawTable(lead, trail, head, P) :
        lead \in BOOLEAN, trail \in BOOLEAN, head \in 0..MaxHeadRows, P \in Plates}
\* the layout the script is written for: one column, the labels, 12 readings
FewRawTables == {RawTable(TRUE, FALSE, 0, P) : P \in Plates}

Ramp(n) == [i \in 1..n |-> i - 1]
AllConcLists == {Ramp(n) : n \in 2..MaxStandards} \cup {<<2, 2>>}
FewConcLists == {Ramp(3)}

FitterTokens ==
    {<<"3">>, <<"4">>, <<"1", "3">>, <<" ", "4">>, <<"A">>, <<"b">>, <<"Z">>,
     <<"3", "A">>, <<"#">>, <<>>}
AllLocationLists == SeqsUpTo(FitterTokens, MaxLocations)
FewLocationLists == {<< <<"3">>, <<"4">> >>, << <<"A">>, <<"b">> >>, << <<"#">> >>}

SampleTokens ==
    {<<"3">>, <<" ", "4">>, <<"3", " ">>, <<"1", "3">>, <<"3", "A">>, <<"A">>, <<"b">>,
     <<"Z">>, <<"A", " ">>, <<"#">>, <<>>, <<" ">>}
AllSampleLists == SeqsUpTo(SampleTokens, MaxSamples)
FewSampleLists == {<< <<"3">>, <<"A">>, <<"#">> >>}

\* concentrations whose absorbance on the fitted line is typed in manual mode
AllProbes == {Rat(k, 2) : k \in (-2 * ProbeRange)..(2 * ProbeRange)}
FewProbes == {RInt(1)}

-----------------------------------------------------------------------------
(* The script as a state machine *)

NoError == [line |-> 0, kind |-> "none"]

InitWith(raws) ==
    /\ pc = "normalize"
    /\ df \in raws
    /\ data = None
    /\ standard_conc = None
    /\ standard_values_location = None
    /\ new_data = None
    /\ orientation = "none"
    /\ slope = None
    /\ intercept = None
    /\ plotted = "none"
    /\ sample_location = None
    /\ idx = 0
    /\ count_samples = None
    /\ reports = <<>>
    /\ warnings = <<>>
    /\ error = NoError
    /\ typed = None

\* lines 22-38
Normalize ==
    /\ pc = "normalize"
    /\ LET r == NormalizeResult(df)
       IN  IF r.ok
           THEN /\ data' = Some(r.frame)
                /\ pc' = "standard_curve"
                /\ error' = error
           ELSE /\ data' = data
                /\ pc' = "crashed"
                /\ error' = [line |-> r.line, kind |-> r.kind]
    /\ UNCHANGED <<df, standard_conc, standard_values_location, new_data, orientation,
                   slope, intercept, plotted, sample_location, idx, count_samples,
                   reports, warnings, typed>>

\* line 131: the call of StandardCurve(data) with what the user types
StandardCurveCall(concs, locs) ==
    /\ pc = "standard_curve"
    /\ \E c \in concs, l \in locs :
         LET r == StandardCurveResult(data.v, c, l)
         IN  /\ standard_conc' = r.standard_conc
             /\ standard_values_location' = r.standard_values_location
             /\ new_data' = r.new_data
             /\ orientation' = r.orientation
             /\ typed' = Some([concs |-> c, locs |-> l])
    /\ pc' = "fit"
    /\ UNCHANGED <<df, data, slope, intercept, plotted, sample_location, idx,
                   count_samples, reports, warnings, error>>

\* lines 133-147
Fit ==
    /\ pc = "fit"
    /\ IF new_data.none
       THEN /\ pc' = "crashed"
            /\ error' = [line |-> 135, kind |-> "AttributeError"]
            /\ UNCHANGED <<slope, intercept>>
       ELSE IF Len(standard_conc.v) # Len(new_data.v)
       THEN /\ pc' = "crashed"
            /\ error' = [line |-> 139, kind |-> "ValueError"]
            /\ UNCHANGED <<slope, intercept>>
       ELSE LET m == LinReg(standard_conc.v, RoundedY(new_data.v))
            IN  /\ slope' = Some(m.slope)
                /\ intercept' = Some(m.intercept)
                /\ pc' = "plot"
                /\ error' = error
    /\ UNCHANGED <<df, data, standard_conc, standard_values_location, new_data,
                   orientation, plotted, sample_location, idx, count_samples,
                   reports, warnings, typed>>

\* lines 156-199 (standard_units is used for display only and is not modelled)
Plot ==
    /\ pc = "plot"
    /\ plotted' = IF new_data.none THEN "nodata" ELSE "plot"
    /\ pc' = "location_check"
    /\ UNCHANGED <<df, data, standard_conc, standard_values_location, new_data,
                   orientation, slope, intercept, sample_location, idx, count_samples,
                   reports, warnings, error, typed>>

\* lines 212-216: the answer is yes, and the sample input is split at ','
LocationCheckYes(samples) ==
    /\ pc = "location_check"
    /\ \E s \in samples : sample_location' = Some(s)
    /\ idx' = 1
    /\ pc' = "batch"
    /\ UNCHANGED <<df, data, standard_conc, standard_values_location, new_data,
                   orientation, slope, intercept, plotted, count_samples, reports,
                   warnings, error, typed>>

\* lines 218-241: one token of the loop
BatchStep ==
    /\ pc = "batch"
    /\ LET r == SampleStep(data.v, sample_location.v[idx], slope.v, intercept.v)
       IN  /\ reports' = IF r.out = "report"
                         THEN Append(reports, [label |-> r.label, abs |-> r.abs,
                                               conc |-> r.conc, from |-> idx,
                                               orientation |-> r.orientation])
                         ELSE reports
           /\ warnings' = IF r.out = "warn" THEN Append(warnings, idx) ELSE warnings
           /\ error' = IF r.out = "raise" THEN [line |-> r.line, kind |-> r.kind] ELSE error
           /\ pc' = IF r.out = "raise" THEN "crashed"
                    ELSE IF idx = Len(sample_location.v) THEN "done" ELSE "batch"
    /\ idx' = idx + 1
    /\ UNCHANGED <<df, data, standard_conc, standard_values_location, new_data,
                   orientation, slope, intercept, plotted, sample_location,
                   count_samples, typed>>

\* lines 242-249 and 257-259: the answer is not yes, and a count is typed
LocationCheckNo(counts) ==
    /\ pc = "location_check"
    /\ \E k \in counts :
         /\ count_samples' = Some(k)
         /\ pc' = IF k > 0 THEN "manual" ELSE "done"
    /\ idx' = 0
    /\ UNCHANGED <<df, data, standard_conc, standard_values_location, new_data,
                   orientation, slope, intercept, plotted, sample_location, reports,
                   warnings, error, typed>>

\* the mean absorbances typed at line 255: points of the fitted line, and one
\* fixed reading
ManualInputs(probes) ==
    {RAdd(RMul(slope.v, c), intercept.v) : c \in probes} \cup {RInt(2000)}

\* lines 253-256: one sample of the loop
ManualStep(probes) ==
    /\ pc = "manual"
    /\ \E a \in ManualInputs(probes) :
         reports' = Append(reports, [label |-> Num(idx + 1), abs |-> a,
                                     conc |-> CalcConc(a, slope.v, intercept.v),
                                     from |-> idx + 1, orientation |-> "manual"])
    /\ idx' = idx + 1
    /\ pc' = IF idx + 1 = count_samples.v THEN "done" ELSE "manual"
    /\ UNCHANGED <<df, data, standard_conc, standard_values_location, new_data,
                   orientation, slope, intercept, plotted, sample_location,
                   count_samples, warnings, error, typed>>

\* Every raw table, a few inputs after it
Init == InitWith(AllRawTables)
Next ==
    \/ Normalize
    \/ StandardCurveCall(FewConcLists, FewLocationLists)
    \/ Fit
    \/ Plot
    \/ LocationCheckYes(FewSampleLists)
    \/ BatchStep
    \/ LocationCheckNo({1})
    \/ ManualStep(FewProbes)
Spec == Init /\ [][Next]_vars

\* Every standard-curve input on the well-formed tables
InitFitter == InitWith(FewRawTables)
NextFitter ==
    \/ Normalize
    \/ StandardCurveCall(AllConcLists, AllLocationLists)
    \/ Fit
    \/ Plot
    \/ LocationCheckYes(FewSampleLists)
    \/ BatchStep
    \/ LocationCheckNo({1})
    \/ ManualStep(FewProbes)
SpecFitter == InitFitter /\ [][NextFitter]_vars

\* Every sample input on the well-formed tables and a few fitted curves
InitEstimator == InitWith(FewRawTables)
NextEstimator ==
    \/ Normalize
    \/ StandardCurveCall(FewConcLists, FewLocationLists)
    \/ Fit
    \/ Plot
    \/ LocationCheckYes(AllSampleLists)
    \/ BatchStep
    \/ LocationCheckNo(0..MaxCount)
    \/ ManualStep(AllProbes)
SpecEstimator == InitEstimator /\ [][NextEstimator]_vars

-----------------------------------------------------------------------------
(* Vocabulary of the properties, stated on characters and cells directly *)

DigitSet == {"0", "1", "2", "3", "4", "5", "6", "7", "8", "9"}
LetterSet == {UpperChars[i] : i \in 1..Len(UpperChars)} \cup
             {LowerChars[i] : i \in 1..Len(LowerChars)}
Trimmed(t) == Strip(t)
FullyNumeric(t) == t # <<>> /\ \A i \in 1..Len(t) : t[i] \in DigitSet
FullyAlphabetic(t) == t # <<>> /\ \A i \in 1..Len(t) : t[i] \in LetterSet

\* the decimal numeral of a column number
Decimal(k) ==
    IF k < 10 THEN <<DigitChars[k + 1]>>
    ELSE <<DigitChars[(k \div 10) + 1], DigitChars[(k % 10) + 1]>>
\* a token that names a column 1..12 / a row A..H, and which one
NamesColumn(t) == \E k \in 1..NCols : t = Decimal(k)
ColumnOf(t) == CHOOSE k \in 1..NCols : t = Decimal(k)
NamesRow(t) == \E r \in 1..NRows : t = <<UpperChars[r]>> \/ t = <<LowerChars[r]>>
RowOf(t) == CHOOSE r \in 1..NRows : t = <<UpperChars[r]>> \/ t = <<LowerChars[r]>>

\* the plate is labelled A..H down its rows
PlateLabelled(d) ==
    /\ Len(d.index) = NRows
    /\ \A r \in 1..NRows : d.index[r] = Str(RowLabel(r))

Normalized == ~data.none
StandardCurveReturned == ~typed.none
Finished == pc \in {"done", "crashed"}

-----------------------------------------------------------------------------
(* C1 *)

\* the raw table holds the row labels A..H in column j of its last 8 rows and
\* absorbance readings in the 12 columns after it
LabelsInColumn(raw, j) ==
    /\ Len(raw) >= NRows
    /\ Len(raw[1]) >= j + NCols
    /\ \A r \in 1..NRows :
         LET row == raw[Len(raw) - NRows + r]
         IN  /\ row[j] = Str(RowLabel(r))
             /\ \A k \in 1..NCols : row[j + k].isnum

\* the normaliser produced 8 rows labelled A..H and 12 columns labelled 1..12,
\* column k holding the k-th reading column after label column j
NormalizedFrom(raw, j) ==
    /\ ~data.none
    /\ Len(data.v.index) = NRows
    /\ Len(data.v.cells) = NRows
    /\ data.v.columns = [k \in 1..NCols |-> Num(k)]
    /\ \A r \in 1..NRows :
         /\ data.v.index[r] = Str(RowLabel(r))
         /\ Len(data.v.cells[r]) = NCols
         /\ \A k \in 1..NCols : data.v.cells[r][k] = raw[Len(raw) - NRows + r][j + k]

\* C1 as claimed: a raw table whose first column holds the row labels A-H and
\* whose next 12 columns hold the readings is normalised to 8 labelled rows and
\* columns 1..12, output column k holding the k-th reading column.
C1_LabelsInFirstColumn ==
    (pc # "normalize" /\ LabelsInColumn(df, 1)) => NormalizedFrom(df, 1)

\* C1 amended: the same for a raw table whose SECOND column holds the row labels
\* and whose third to fourteenth columns hold the readings (the first column is
\* skipped by columns[1:14]).
C1_LabelsInSecondColumn ==
    (pc # "normalize" /\ LabelsInColumn(df, 2)) => NormalizedFrom(df, 2)

\* a table with rows above the plate and the labels in the second column has
\* been normalised
C1_Witness ==
    /\ pc # "normalize"
    /\ LabelsInColumn(df, 2)
    /\ Len(df) > NRows
    /\ Normalized
    /\ data.v.cells[2][3] # data.v.cells[2][4]

-----------------------------------------------------------------------------
(* C2 *)

TypedLocs == [i \in 1..Len(typed.v.locs) |-> Trimmed(typed.v.locs[i])]
AllColumns == \A i \in 1..Len(TypedLocs) : NamesColumn(TypedLocs[i])
AllRows == \A i \in 1..Len(TypedLocs) : NamesRow(TypedLocs[i])

\* the mean of the readings of standard i at the listed replicate locations:
\* row i of the listed columns, or position i of the listed rows
ReplicateMean(i) ==
    LET K == Len(TypedLocs)
    IN  IF AllColumns
        THEN Rat(SumSeq([k \in 1..K |-> data.v.cells[i][ColumnOf(TypedLocs[k])].n]), K)
        ELSE Rat(SumSeq([k \in 1..K |-> data.v.cells[RowOf(TypedLocs[k])][i].n]), K)

MeansAre(len) ==
    /\ ~new_data.none
    /\ Len(new_data.v) = len
    /\ \A i \in 1..len : new_data.v[i] = ReplicateMean(i)

Smaller(a, b) == IF a < b THEN a ELSE b

\* C2 as claimed: for n >= 2 concentrations and a valid replicate list (all
\* column numbers 1-12 or all row letters A-H), mean_absorbance has exactly n
\* elements and element i is the mean of the readings of standard i.
C2_ExactlyN ==
    (StandardCurveReturned /\ PlateLabelled(data.v) /\ Len(typed.v.concs) >= 2
        /\ (AllColumns \/ AllRows))
    => MeansAre(Len(typed.v.concs))

\* C2 amended: mean_absorbance has min(n, 8) elements for a column list and
\* min(n, 12) elements for a row list (the slice [0:n] stops at the end of the
\* plate), and each element i it has is the mean of the readings of standard i.
C2_AtMostThePlate ==
    (StandardCurveReturned /\ PlateLabelled(data.v) /\ Len(typed.v.concs) >= 2
        /\ (AllColumns \/ AllRows))
    => MeansAre(Smaller(Len(typed.v.concs), IF AllColumns THEN NRows ELSE NCols))

\* more standards than plate rows, two different replicate columns, and a mean
\* that is not a whole reading
C2_Witness ==
    /\ StandardCurveReturned
    /\ PlateLabelled(data.v)
    /\ AllColumns
    /\ Len(TypedLocs) = 2
    /\ TypedLocs[1] # TypedLocs[2]
    /\ Len(typed.v.concs) > NRows
    /\ ~new_data.none
    /\ new_data.v[1][2] = 2

-----------------------------------------------------------------------------
(* C3 *)

\* the location tokens are mixed, or not all numeric and not all alphabetic
MixedLocations ==
    /\ ~(\A i \in 1..Len(TypedLocs) : FullyNumeric(TypedLocs[i]))
    /\ ~(\A i \in 1..Len(TypedLocs) : FullyAlphabetic(TypedLocs[i]))

NoCurve == new_data.none /\ slope.none /\ plotted = "none"

\* C3 as claimed: with mixed location tokens no orientation is selected and no
\* mean absorbance or curve is produced.
C3_NoOrientationSelected ==
    (StandardCurveReturned /\ MixedLocations) => (orientation = "none" /\ NoCurve)

\* C3 amended: the orientation is decided by the first token alone.  When the
\* first token is neither fully numeric nor fully alphabetic, no orientation is
\* selected and no mean absorbance or curve is produced.  When the tokens are
\* mixed and the first is numeric (alphabetic), vertical (horizontal)
\* orientation is detected, and a token that is not the numeral of a column
\* 1-12 (not a row letter A-H) leaves no mean absorbance and no curve.
C3_FirstTokenDecides ==
    StandardCurveReturned =>
        /\ (~FullyNumeric(TypedLocs[1]) /\ ~FullyAlphabetic(TypedLocs[1]))
              => (orientation = "none" /\ NoCurve)
        /\ (MixedLocations /\ FullyNumeric(TypedLocs[1]))
              => (orientation = "vertical" /\ (~AllColumns => NoCurve))
        /\ (MixedLocations /\ FullyAlphabetic(TypedLocs[1]))
              => (orientation = "horizontal" /\ (~AllRows => NoCurve))

\* a numeric first token followed by a letter: vertical orientation was
\* detected and the script stopped at line 135 without a curve
C3_Witness ==
    /\ StandardCurveReturned
    /\ MixedLocations
    /\ FullyNumeric(TypedLocs[1])
    /\ orientation = "vertical"
    /\ NoCurve
    /\ pc = "crashed"
    /\ error.line = 135

-----------------------------------------------------------------------------
(* C4 *)

InBatch == ~sample_location.none
Token(i) == sample_location.v[i]
\* the tokens the loop has been through
Processed == IF InBatch THEN 1..(idx - 1) ELSE {}
Reported(i) == \E k \in 1..Len(reports) : reports[k].from = i
ReportOf(i) == reports[CHOOSE k \in 1..Len(reports) : reports[k].from = i]
Warned(i) == \E k \in 1..Len(warnings) : warnings[k] = i
BatchAborted == InBatch /\ pc = "crashed"

\* a token that resolves to a well group as typed / that cannot resolve at all
Resolvable(t) == NamesColumn(t) \/ NamesRow(t)
Unresolvable(t) == t # <<>> /\ ~NamesColumn(Trimmed(t)) /\ ~NamesRow(Trimmed(t))

\* C4 as claimed: in a list mixing valid and invalid sample tokens, an invalid
\* token is skipped with a warning and never aborts the batch, and a
\* concentration is reported for every valid token of the list.
C4_InvalidTokenSkipped ==
    InBatch =>
        /\ \A i \in Processed : Unresolvable(Token(i)) => (Warned(i) /\ ~BatchAborted)
        /\ Finished => \A i \in 1..Len(sample_location.v) :
                          Resolvable(Token(i)) => Reported(i)

-----------------------------------------------------------------------------
(* C5 *)

\* the class the Fitter's rule gives a token: the detection line StandardCurve
\* prints when the token is the first location typed
FitterClass(t) == StandardCurveResult(data.v, Ramp(2), <<t>>).orientation

\* the class the Estimator's loop gave token i: the branch it took
EstimatorClass(i) ==
    IF Reported(i) THEN ReportOf(i).orientation
    ELSE IF BatchAborted /\ i = idx - 1
    THEN (IF error.line = 226 THEN "vertical" ELSE "horizontal")
    ELSE "none"

\* the mean of the first 3 readings of the column / row a reported token names
FirstThreeMean(i) ==
    LET t == Trimmed(Token(i))
    IN  IF NamesColumn(t)
        THEN Rat(SumSeq([r \in 1..NReplicates |-> data.v.cells[r][ColumnOf(t)].n]),
                 NReplicates)
        ELSE Rat(SumSeq([c \in 1..NReplicates |-> data.v.cells[RowOf(t)][c].n]),
                 NReplicates)

\* C5 as claimed: the absorbance of a sample is the mean of the first 3
\* readings at its location, and every sample token is classified by the
\* Estimator as the Fitter's rule classifies it.
C5_SameRule ==
    (InBatch /\ PlateLabelled(data.v)) =>
        \A i \in Processed :
            /\ Reported(i) => ReportOf(i).abs = FirstThreeMean(i)
            /\ EstimatorClass(i) = FitterClass(Token(i))

-----------------------------------------------------------------------------
(* C6 *)

Fitted == ~slope.none
OnLine(c) == RAdd(RMul(slope.v, c), intercept.v)
\* the range of the standard concentrations
BelowStandards(c) == \A i \in 1..Len(standard_conc.v) : c[1] < standard_conc.v[i] * c[2]
AboveStandards(c) == \A i \in 1..Len(standard_conc.v) : c[1] > standard_conc.v[i] * c[2]

\* C6: with a non-zero slope, every reported concentration of an absorbance
\* slope * c + intercept is c itself, inside and outside the calibration range.
C6_RoundTrip ==
    (Fitted /\ slope.v[1] # 0) =>
        \A k \in 1..Len(reports) : \A c \in AllProbes :
            reports[k].abs = OnLine(c) => reports[k].conc = [kind |-> "num", v |-> c]

\* a concentration below the lowest standard and one above the highest have
\* both been reported from absorbances on the line
C6_Witness ==
    /\ Fitted
    /\ slope.v[1] # 0
    /\ \E k \in 1..Len(reports) : \E c \in AllProbes :
         /\ BelowStandards(c)
         /\ reports[k].abs = OnLine(c)
         /\ reports[k].conc.v = c
    /\ \E k \in 1..Len(reports) : \E c \in AllProbes :
         /\ AboveStandards(c)
         /\ reports[k].abs = OnLine(c)
         /\ reports[k].conc.v = c

-----------------------------------------------------------------------------
(* C7 *)

\* C7 as claimed: with a zero slope the estimate fails and no concentration is
\* reported for any sample.
C7_FlatCurveReportsNothing ==
    (Fitted /\ slope.v[1] = 0) => reports = <<>>

-----------------------------------------------------------------------------
(* C8 *)

\* The transposed plate as a frame: the columns 1..12 of d become rows labelled
\* by the letters in the same positions, the rows of d become columns 1, 2, ...
TransposedPlate(d) ==
    [index   |-> [c \in 1..Len(d.columns) |-> Str(<<UpperChars[c]>>)],
     columns |-> [r \in 1..Len(d.index) |-> Num(r)],
     cells   |-> [c \in 1..Len(d.columns) |-> [r \in 1..Len(d.index) |-> d.cells[r][c]]]]

\* the row letters matching the replicate columns of the vertical fit
MatchingLetters ==
    [i \in 1..Len(standard_values_location.v) |->
        <<UpperChars[standard_values_location.v[i].n]>>]

\* C8: a vertical fit of the plate and the horizontal fit of the transposed
\* plate at the matching row letters give the same mean_absorbance, and the
\* same slope and intercept.
C8_OrientationSymmetry ==
    (StandardCurveReturned /\ orientation = "vertical" /\ ~new_data.none) =>
        LET h == StandardCurveResult(TransposedPlate(data.v), typed.v.concs,
                                     MatchingLetters)
        IN  /\ h.orientation = "horizontal"
            /\ ~h.new_data.none
            /\ h.new_data.v = new_data.v
            /\ Fitted => LinReg(h.standard_conc.v, RoundedY(h.new_data.v))
                           = [slope |-> slope.v, intercept |-> intercept.v]

\* a vertical fit over two different replicate columns of a plate whose rows
\* and columns differ, with its curve fitted
C8_Witness ==
    /\ StandardCurveReturned
    /\ orientation = "vertical"
    /\ ~new_data.none
    /\ Fitted
    /\ Len(standard_values_location.v) = 2
    /\ standard_values_location.v[1] # standard_values_location.v[2]
    /\ data.v.cells[1][3] # data.v.cells[3][1]
    /\ slope.v[1] # 0

-----------------------------------------------------------------------------
(* C9 *)

\* C9 as claimed: when StandardCurve produced no mean absorbance, the script
\* reaches the branch that prints 'No data available for plotting' and does not
\* fail before it.
C9_NoDataBranchReached ==
    (StandardCurveReturned /\ new_data.none /\ pc = "crashed") => plotted = "nodata"

-----------------------------------------------------------------------------
(* C10 *)

\* C10 as claimed: a sample token is stripped before it is tested, so a list
\* whose tokens name a column or a row once stripped ('3, 4', 'A, B') yields a
\* concentration for every token, the one the stripped token yields; only the
\* empty token is skipped silently.
C10_TokensStripped ==
    (InBatch /\ PlateLabelled(data.v) /\ Finished
        /\ \A i \in 1..Len(sample_location.v) : Resolvable(Trimmed(Token(i))))
    => /\ pc = "done"
       /\ \A i \in 1..Len(sample_location.v) :
            Reported(i) /\ ReportOf(i).abs = FirstThreeMean(i)

====
